---- MODULE Spec2Model ----
(***************************************************************************)
(* Model of ivy/functional/ivy/experimental/activations.py: the two        *)
(* activation wrappers logit and prelu.  One call is modelled at a time:   *)
(* the call's arguments, the caller's output buffer, the operations the    *)
(* call performs on its collaborators (elementwise select, reshape, the    *)
(* backend's logit) and the way the call ends (return or raise).           *)
(***************************************************************************)
EXTENDS Integers, Sequences, FiniteSets

VARIABLES pc, fn, x, slope, eps, out, outbuf, ops, backend, e, tmp, outcome

vars == <<pc, fn, x, slope, eps, out, outbuf, ops, backend, e, tmp, outcome>>

(* ---------------------------- bounds ----------------------------------- *)
MaxRank == 3
MaxDim == 3

(* ------------------- floating-point element values --------------------- *)
Fin(n) == [k |-> "fin", v |-> n]
PInf == [k |-> "pinf", v |-> 0]
NInf == [k |-> "ninf", v |-> 0]
NaN == [k |-> "nan", v |-> 0]

Sign(a) ==
    IF a.k = "pinf" THEN 1
    ELSE IF a.k = "ninf" THEN -1
    ELSE IF a.v > 0 THEN 1
    ELSE IF a.v < 0 THEN -1
    ELSE 0

\* a * b on floating-point values (0 * inf is NaN)
Mul(a, b) ==
    IF a.k = "nan" \/ b.k = "nan" THEN NaN
    ELSE IF a.k = "fin" /\ b.k = "fin" THEN Fin(a.v * b.v)
    ELSE IF Sign(a) * Sign(b) = 0 THEN NaN
    ELSE IF Sign(a) * Sign(b) > 0 THEN PInf
    ELSE NInf

\* a > 0 (false for NaN)
Gt0(a) == a.k = "pinf" \/ (a.k = "fin" /\ a.v > 0)

\* a >= 0, the case in which the documentation has f(x) = x
Ge0(a) == a.k = "pinf" \/ (a.k = "fin" /\ a.v >= 0)

(* ------------------------------ tensors -------------------------------- *)
RECURSIVE ProdFrom(_, _)
ProdFrom(s, i) == IF i > Len(s) THEN 1 ELSE s[i] * ProdFrom(s, i + 1)

\* number of elements of a tensor of shape s
Prod(s) == ProdFrom(s, 1)

Max(a, b) == IF a >= b THEN a ELSE b

\* the i-th dimension of s once s is right-aligned in rank r
Dim(s, i, r) == IF i <= r - Len(s) THEN 1 ELSE s[i - (r - Len(s))]

\* trailing-dimension broadcasting rule
BroadcastOk(s1, s2) ==
    LET r == Max(Len(s1), Len(s2))
    IN \A i \in 1..r :
          \/ Dim(s1, i, r) = Dim(s2, i, r)
          \/ Dim(s1, i, r) = 1
          \/ Dim(s2, i, r) = 1

BroadcastShape(s1, s2) ==
    LET r == Max(Len(s1), Len(s2))
    IN [i \in 1..r |-> IF Dim(s1, i, r) = 1 THEN Dim(s2, i, r) ELSE Dim(s1, i, r)]

\* multi-index (0-based) of the flat row-major index k0 in shape s
Unravel(k0, s) == [i \in 1..Len(s) |-> (k0 \div ProdFrom(s, i + 1)) % s[i]]

RECURSIVE Ravel(_, _, _)
Ravel(idx, s, j) ==
    IF j > Len(s) THEN 0 ELSE idx[j] * ProdFrom(s, j + 1) + Ravel(idx, s, j + 1)

\* the element of t that lands on flat index k0 of the broadcast shape S
At(t, S, k0) ==
    LET idx == Unravel(k0, S)
        off == Len(S) - Len(t.shape)
        own == [j \in 1..Len(t.shape) |-> IF t.shape[j] = 1 THEN 0 ELSE idx[j + off]]
    IN t.data[Ravel(own, t.shape, 1) + 1]

\* x * slope, elementwise with broadcasting
Multiply(a, b) ==
    LET S == BroadcastShape(a.shape, b.shape)
    IN [shape |-> S,
        data |-> [k \in 1..Prod(S) |-> Mul(At(a, S, k - 1), At(b, S, k - 1))]]

\* x > 0, elementwise
Greater0(a) == [shape |-> a.shape, data |-> [k \in 1..Prod(a.shape) |-> Gt0(a.data[k])]]

\* ivy.where(cond, a, b): elementwise select with broadcasting
Where(c, a, b) ==
    LET S == BroadcastShape(BroadcastShape(c.shape, a.shape), b.shape)
    IN [shape |-> S,
        data |-> [k \in 1..Prod(S) |->
                     IF At(c, S, k - 1) THEN At(a, S, k - 1) ELSE At(b, S, k - 1)]]

\* reshape succeeds only when the element count is preserved
ReshapeOk(t, shape) == Prod(shape) = Prod(t.shape)
Reshape(t, shape) == [shape |-> shape, data |-> t.data]

(* ------------------------------ inputs --------------------------------- *)
Dims == 0..MaxDim
XShapes == UNION {[1..r -> Dims] : r \in 0..MaxRank}
SlopeShapes == UNION {[1..r -> Dims] : r \in 0..2}

XVals == <<Fin(0), Fin(-1), Fin(1)>>
SlopeVals == <<Fin(2), PInf, Fin(-1), Fin(0)>>

MkData(shape, vals) ==
    [k \in 1..Prod(shape) |-> vals[((k - 1) % Len(vals)) + 1]]

XTensor(shape) == [shape |-> shape, data |-> MkData(shape, XVals)]

\* slope is a scalar (a tensor of rank 0 once normalised) or an array
ScalarSlope(v) == [shape |-> <<>>, data |-> <<v>>]
ArraySlope(shape) == [shape |-> shape, data |-> MkData(shape, SlopeVals)]
Slopes ==
    {ScalarSlope(SlopeVals[i]) : i \in 1..Len(SlopeVals)}
        \cup {ArraySlope(s) : s \in SlopeShapes \ {<<>>}}

EpsVals == {"None", "0.2", "0.7", "-1.0"}

NoTensor == [shape |-> <<0>>, data |-> <<>>]
NoErr == [id |-> 0, cls |-> "none", cause |-> "none"]
NoOutcome == [kind |-> "none", val |-> NoTensor, err |-> NoErr]

Returned(t) == [kind |-> "return", val |-> t, err |-> NoErr]
Raised(err) == [kind |-> "raise", val |-> NoTensor, err |-> err]

\* a write of t into the caller's buffer by operation op, when out is supplied
Write(buf, supplied, op, t) ==
    IF supplied THEN Append(buf, [by |-> op, val |-> t]) ELSE buf

Init ==
    /\ pc = "idle"
    /\ fn = "none"
    /\ x = NoTensor
    /\ slope = NoTensor
    /\ eps = "None"
    /\ out = FALSE
    /\ outbuf = <<>>
    /\ ops = <<>>
    /\ backend = <<>>
    /\ e = NoErr
    /\ tmp = NoTensor
    /\ outcome = NoOutcome

(* ------------------------------- logit --------------------------------- *)
\* logit replacing an absent eps by a default before the backend call
LogitBackendArgsDefaultEps(ax, aeps, aout) ==
    [x |-> ax, eps |-> IF aeps = "None" THEN "0.2" ELSE aeps, out |-> aout]

\* the arguments logit hands to the backend
LogitBackendArgs(ax, aeps, aout) == [x |-> ax, eps |-> aeps, out |-> aout]

CallLogit ==
    /\ pc = "idle"
    /\ \E s \in XShapes, ep \in EpsVals, o \in BOOLEAN :
          /\ x' = XTensor(s)
          /\ eps' = ep
          /\ out' = o
    /\ fn' = "logit"
    /\ pc' = "logit"
    /\ UNCHANGED <<slope, outbuf, ops, backend, e, tmp, outcome>>

\* return current_backend(x).logit(x, eps=eps, out=out): the backend call succeeds
LogitReturn ==
    /\ pc = "logit"
    /\ \E r \in {NaN, PInf, Fin(1)} :
          LET ret == [shape |-> x.shape, data |-> [k \in 1..Prod(x.shape) |-> r]]
          IN /\ backend' = Append(backend,
                    [args |-> LogitBackendArgs(x, eps, out), res |-> Returned(ret)])
             /\ outbuf' = Write(outbuf, out, "backend.logit", ret)
             /\ outcome' = Returned(ret)
    /\ pc' = "done"
    /\ UNCHANGED <<fn, x, slope, eps, out, ops, e, tmp>>

\* the backend call fails: the failure propagates
LogitRaise ==
    /\ pc = "logit"
    /\ \E c \in {"ValueError", "RuntimeError"} :
          LET err == [id |-> 1, cls |-> c, cause |-> "backend"]
          IN /\ backend' = Append(backend,
                    [args |-> LogitBackendArgs(x, eps, out), res |-> Raised(err)])
             /\ outcome' = Raised(err)
    /\ pc' = "done"
    /\ UNCHANGED <<fn, x, slope, eps, out, outbuf, ops, e, tmp>>

(* ------------------------------- prelu --------------------------------- *)
CallPrelu ==
    /\ pc = "idle"
    /\ \E s \in XShapes, sl \in Slopes, o \in BOOLEAN :
          /\ x' = XTensor(s)
          /\ slope' = sl
          /\ out' = o
    /\ fn' = "prelu"
    /\ pc' = "primary"
    /\ UNCHANGED <<eps, outbuf, ops, backend, e, tmp, outcome>>

\* ivy.where(x > 0, x, x * slope)
PreluSelect(ax, s) == Where(Greater0(ax), ax, Multiply(ax, s))

Op(name, ok) == [op |-> name, ok |-> ok]

\* try: return ivy.where(x > 0, x, x * slope, out=out)
PrimaryReturn ==
    /\ pc = "primary"
    /\ BroadcastOk(x.shape, slope.shape)
    /\ LET ret == PreluSelect(x, slope)
       IN /\ outbuf' = Write(outbuf, out, "where", ret)
          /\ outcome' = Returned(ret)
    /\ ops' = Append(ops, Op("select", TRUE))
    /\ pc' = "done"
    /\ UNCHANGED <<fn, x, slope, eps, out, backend, e, tmp>>

\* the primary select raises ValueError because the shapes do not broadcast
PrimaryShapeError ==
    /\ pc = "primary"
    /\ ~BroadcastOk(x.shape, slope.shape)
    /\ e' = [id |-> 1, cls |-> "ValueError", cause |-> "shape"]
    /\ ops' = Append(ops, Op("select", FALSE))
    /\ pc' = "except"
    /\ UNCHANGED <<fn, x, slope, eps, out, outbuf, backend, tmp, outcome>>

\* the primary select raises a ValueError of the backend that is no shape error
PrimaryValueError ==
    /\ pc = "primary"
    /\ BroadcastOk(x.shape, slope.shape)
    /\ e' = [id |-> 1, cls |-> "ValueError", cause |-> "backend"]
    /\ ops' = Append(ops, Op("select", FALSE))
    /\ pc' = "except"
    /\ UNCHANGED <<fn, x, slope, eps, out, outbuf, backend, tmp, outcome>>

\* the primary select raises an exception that is no ValueError: not caught
PrimaryOtherError ==
    /\ pc = "primary"
    /\ BroadcastOk(x.shape, slope.shape)
    /\ e' = [id |-> 1, cls |-> "RuntimeError", cause |-> "backend"]
    /\ ops' = Append(ops, Op("select", FALSE))
    /\ outcome' = Raised(e')
    /\ pc' = "done"
    /\ UNCHANGED <<fn, x, slope, eps, out, outbuf, backend, tmp>>

\* n: the number of axes of x equal to dim
CountMatching(xshape, dim) == Cardinality({i \in 1..Len(xshape) : xshape[i] = dim})

\* new_shape: both branches of the loop append d
NewShapeAligned(xshape, dim) ==
    [i \in 1..Len(xshape) |-> IF xshape[i] = dim THEN xshape[i] ELSE 1]

NewShape(xshape, dim) ==
    [i \in 1..Len(xshape) |-> IF xshape[i] = dim THEN xshape[i] ELSE xshape[i]]

\* if n == 1
FallbackAppliesLoose(n) == n >= 1

FallbackApplies(n) == n = 1

\* except ValueError as e: the fallback does not apply, raise e
ExceptReraise ==
    /\ pc = "except"
    /\ \/ Len(slope.shape) # 1
       \/ /\ Len(slope.shape) = 1
          /\ ~FallbackApplies(CountMatching(x.shape, slope.shape[1]))
    /\ ops' = Append(ops, Op("shape", TRUE))
    /\ outcome' = Raised(e)
    /\ pc' = "done"
    /\ UNCHANGED <<fn, x, slope, eps, out, outbuf, backend, e, tmp>>

\* n == 1 and slope.reshape(tuple(new_shape), out=out) succeeds
ExceptReshape ==
    /\ pc = "except"
    /\ Len(slope.shape) = 1
    /\ FallbackApplies(CountMatching(x.shape, slope.shape[1]))
    /\ LET new_shape == NewShape(x.shape, slope.shape[1])
       IN /\ ReshapeOk(slope, new_shape)
          /\ tmp' = Reshape(slope, new_shape)
          /\ outbuf' = Write(outbuf, out, "reshape", Reshape(slope, new_shape))
    /\ ops' = ops \o <<Op("shape", TRUE), Op("reshape", TRUE)>>
    /\ pc' = "retry"
    /\ UNCHANGED <<fn, x, slope, eps, out, backend, e, outcome>>

\* n == 1 and slope.reshape(tuple(new_shape), out=out) fails
ExceptReshapeError ==
    /\ pc = "except"
    /\ Len(slope.shape) = 1
    /\ FallbackApplies(CountMatching(x.shape, slope.shape[1]))
    /\ ~ReshapeOk(slope, NewShape(x.shape, slope.shape[1]))
    /\ ops' = ops \o <<Op("shape", TRUE), Op("reshape", FALSE)>>
    /\ outcome' = Raised([id |-> 2, cls |-> "ValueError", cause |-> "reshape"])
    /\ pc' = "done"
    /\ UNCHANGED <<fn, x, slope, eps, out, outbuf, backend, e, tmp>>

\* xs = x * slope.reshape(...); return ivy.where(x > 0, x, xs, out=out)
RetryReturn ==
    /\ pc = "retry"
    /\ BroadcastOk(x.shape, tmp.shape)
    /\ LET ret == PreluSelect(x, tmp)
       IN /\ outbuf' = Write(outbuf, out, "where", ret)
          /\ outcome' = Returned(ret)
    /\ ops' = Append(ops, Op("select", TRUE))
    /\ pc' = "done"
    /\ UNCHANGED <<fn, x, slope, eps, out, backend, e, tmp>>

\* the second select fails: the failure leaves the handler
RetryRaise ==
    /\ pc = "retry"
    /\ \E c \in {"ValueError", "RuntimeError"} :
          outcome' = Raised([id |-> 2, cls |-> c, cause |-> "backend"])
    /\ ops' = Append(ops, Op("select", FALSE))
    /\ pc' = "done"
    /\ UNCHANGED <<fn, x, slope, eps, out, outbuf, backend, e, tmp>>

Next ==
    \/ CallLogit
    \/ LogitReturn
    \/ LogitRaise
    \/ CallPrelu
    \/ PrimaryReturn
    \/ PrimaryShapeError
    \/ PrimaryValueError
    \/ PrimaryOtherError
    \/ ExceptReraise
    \/ ExceptReshape
    \/ ExceptReshapeError
    \/ RetryReturn
    \/ RetryRaise

Spec == Init /\ [][Next]_vars

(* ------------------------------ properties ----------------------------- *)
OpCount(name) == Cardinality({i \in 1..Len(ops) : ops[i].op = name})

PreluDone == pc = "done" /\ fn = "prelu"

PrimaryFailedOnShape == e.id = 1 /\ e.cause = "shape"

SlopeIs1D == Len(slope.shape) = 1

\* C1: prelu with a scalar slope returns x where x >= 0 and slope * x where
\* x < 0, elementwise, the element x = 0 yielding x.
C1_ScalarSlopeElementwise ==
    (/\ PreluDone
     /\ slope.shape = <<>>
     /\ outcome.kind = "return")
        => /\ outcome.val.shape = x.shape
           /\ \A k \in 1..Prod(x.shape) :
                 outcome.val.data[k] =
                     IF Ge0(x.data[k]) THEN x.data[k] ELSE Mul(slope.data[1], x.data[k])

\* the index of flat element k of x along the axis of x whose length is d
AlongMatchingAxis(k, d) ==
    LET axis == CHOOSE i \in 1..Len(x.shape) : x.shape[i] = d
    IN Unravel(k - 1, x.shape)[axis]

\* C2: with a one-dimensional slope of length d, exactly one axis of x of
\* length d and a failing direct broadcast, the fallback returns a tensor of
\* x's shape holding x where x >= 0 and slope[i] * x otherwise, i the index
\* along the matching axis.  Stated for an x with at least one element and
\* for calls in which no backend fails, where it is already violated.
C2_FallbackAppliesSlopeAlongAxis ==
    (/\ PreluDone
     /\ PrimaryFailedOnShape
     /\ SlopeIs1D
     /\ Prod(x.shape) >= 1
     /\ CountMatching(x.shape, slope.shape[1]) = 1
     /\ outcome.err.cause # "backend")
        => /\ outcome.kind = "return"
           /\ outcome.val.shape = x.shape
           /\ \A k \in 1..Prod(x.shape) :
                 outcome.val.data[k] =
                     IF Ge0(x.data[k]) THEN x.data[k]
                     ELSE Mul(slope.data[AlongMatchingAxis(k, slope.shape[1]) + 1],
                              x.data[k])

FallbackPreconditionUnmet ==
    \/ ~SlopeIs1D
    \/ CountMatching(x.shape, slope.shape[1]) # 1

\* C3: when the primary select fails on the shapes and the fallback
\* precondition is not met, the call raises the original error object, and
\* neither a reshape nor a second select has been performed.
C3_ReraiseOriginal ==
    (PreluDone /\ PrimaryFailedOnShape /\ FallbackPreconditionUnmet)
        => /\ outcome = Raised(e)
           /\ OpCount("reshape") = 0
           /\ OpCount("select") = 1

C3_Witness ==
    /\ PreluDone
    /\ PrimaryFailedOnShape
    /\ SlopeIs1D
    /\ Prod(x.shape) >= 1
    /\ CountMatching(x.shape, slope.shape[1]) >= 2
    /\ outcome.kind = "raise"

\* no select and no backend call of the call failed for a reason other than
\* the shapes
NoBackendFailure == e.cause # "backend" /\ outcome.err.cause # "backend"

\* C4: in a call with an output buffer supplied, the buffer is written at
\* most once.  Stated for calls in which no backend fails, where it is
\* already violated.
C4_OutWrittenAtMostOnce ==
    (pc = "done" /\ out /\ NoBackendFailure) => Len(outbuf) <= 1

\* C5: when a prelu call with an output buffer supplied ends by raising, the
\* buffer holds what it held before the call.  Stated for calls whose primary
\* select failed on the shapes, where it is already violated.
C5_OutUntouchedOnRaise ==
    (PreluDone /\ PrimaryFailedOnShape /\ out /\ outcome.kind = "raise")
        => outbuf = <<>>

\* C6: a failure of the primary select that is no shape-incompatibility
\* failure propagates unchanged: slope.shape is not inspected, and neither
\* the reshape nor the second select is attempted.
C6_OnlyShapeFailuresCaught ==
    (PreluDone /\ e.id = 1 /\ e.cause # "shape")
        => /\ outcome = Raised(e)
           /\ OpCount("shape") = 0
           /\ OpCount("reshape") = 0
           /\ OpCount("select") = 1

\* C7: logit calls the backend's logit exactly once with the caller's x, eps
\* and out, and ends the way that backend call ends.
C7_LogitDelegates ==
    (pc = "done" /\ fn = "logit")
        => /\ Len(backend) = 1
           /\ backend[1].args = [x |-> x, eps |-> eps, out |-> out]
           /\ outcome = backend[1].res

C7_Witness ==
    /\ pc = "done"
    /\ fn = "logit"
    /\ eps = "-1.0"
    /\ out
    /\ Len(backend) = 1
    /\ outcome.kind = "raise"

\* C8: a prelu call performs at most two selects and one reshape, the reshape
\* and the second select only after a shape-incompatibility failure of the
\* primary select, and a successful primary select is returned at once.
C8_SingleFallbackAfterShapeFailure ==
    PreluDone
        => /\ OpCount("select") <= 2
           /\ OpCount("reshape") <= 1
           /\ (OpCount("reshape") >= 1 \/ OpCount("select") = 2) => PrimaryFailedOnShape
           /\ ops[1].ok => (Len(ops) = 1 /\ outcome.kind = "return")

\* C9: when the primary select fails exactly on the shapes, the fallback
\* returns a result only for an x without elements (slope of length 0 and
\* exactly one axis of x of length 0); for an x with at least one element the
\* call ends by raising.
C9_FallbackReturnsOnlyEmpty ==
    (PreluDone /\ PrimaryFailedOnShape)
        => /\ outcome.kind = "return"
                => /\ Prod(x.shape) = 0
                   /\ slope.shape = <<0>>
                   /\ CountMatching(x.shape, 0) = 1
           /\ Prod(x.shape) >= 1 => outcome.kind = "raise"

C9_Witness ==
    /\ PreluDone
    /\ PrimaryFailedOnShape
    /\ SlopeIs1D
    /\ Prod(x.shape) >= 1
    /\ CountMatching(x.shape, slope.shape[1]) = 1
    /\ OpCount("reshape") = 1
    /\ outcome.kind = "raise"

\* C10: whenever prelu returns a result, the result has the shape of x.
C10_ResultHasShapeOfX ==
    (PreluDone /\ outcome.kind = "return") => outcome.val.shape = x.shape

====
